---------------------------- MODULE Spec2Model ----------------------------
(***************************************************************************)
(* A model of the wral write-ahead log: the Wral handle (src/src/wral.rs),  *)
(* the writer thread and its main loop (src/src/writer.rs), the journal    *)
(* (src/src/journal.rs), the batch worker (src/src/batch.rs) and the file  *)
(* helpers (src/src/util.rs, src/src/files.rs).                            *)
(*                                                                         *)
(* CBOR is an external encoder: a batch on disk is kept as the record that *)
(* was encoded, together with the number of bytes its encoding takes       *)
(* (BatchLen); bytes that do not decode are kept as the length of the      *)
(* undecodable tail of a file.  u64 and usize are modelled with Width bits.*)
(***************************************************************************)
EXTENDS Integers, Sequences, FiniteSets, TLC

(* ------------------------------ bounds -------------------------------- *)

\* Total number of add_op calls made in one behaviour.
MaxOps == 3

\* Number of times the process is stopped (crash, or release of all handles)
\* and the WAL loaded again.
MaxRestarts == 1

\* Config.journal_limit of the modelled instance, in bytes.
JournalLimit == 3

\* Number of bits of the modelled u64 / usize.
Width == 4

\* Number of calls of close or purge one caller makes.
MaxCloses == 1

\* u64::MAX (and usize::MAX) at the modelled width.
U64_MAX == 2^Width - 1

\* wral::SYNC_BUFFER, the capacity of the request channel.
SYNC_BUFFER == 1024

\* The threads that hold a clone of the handle and call add_op.
Callers == {"t1", "t2"}

\* The op payloads a caller may submit (byte strings).
Payloads == {<<1>>, <<2, 2>>}

\* Option<T>: None is the empty sequence, Some(x) the sequence of x alone.
None == <<>>

Some(x) == <<x>>

\* Result<Entry>, the item an iterator yields.
Ok(e) == <<"Ok", e>>

Err == <<"Err">>

(* ------------------------- entries and batches ------------------------ *)

\* entry::Entry::new
Entry(sq, op) == [seqno |-> sq, op |-> op]

\* batch::Index::new
Index(fpos, length, first_seqno, last_seqno) ==
    [fpos |-> fpos, length |-> length,
     first_seqno |-> first_seqno, last_seqno |-> last_seqno]

\* Number of bytes of the CBOR encoding of an entry: a header and the op.
EntryLen(e) == 1 + Len(e.op)

RECURSIVE EntriesLen(_)
EntriesLen(es) ==
    IF es = <<>> THEN 0 ELSE EntryLen(Head(es)) + EntriesLen(Tail(es))

\* util::encode_cbor(batch).len(): a header and the entries.
BatchLen(b) == 1 + EntriesLen(b.entries)

RECURSIVE BatchesLen(_)
BatchesLen(bs) ==
    IF bs = <<>> THEN 0 ELSE BatchLen(Head(bs)) + BatchesLen(Tail(bs))

\* file.metadata().len(): the encoded batches and the undecodable tail.
FileLen(f) == BatchesLen(f.batches) + f.tail

\* A file as fs::OpenOptions::create_new leaves it; `synced` is the number
\* of its bytes that a sync_all has covered.
EmptyFile == [batches |-> <<>>, tail |-> 0, synced |-> 0]

\* Offset in a file of the i-th batch written to it.
Offset(bs, i) == BatchesLen(SubSeq(bs, 1, i - 1))

\* usize::saturating_add(1)
SatAdd(n) == IF n < U64_MAX THEN n + 1 ELSE n

Last(s) == s[Len(s)]

(* ----------------------------- file names ----------------------------- *)

\* Config.name of the modelled instance, as its '-'-separated parts.
Name == <<"wal">>

\* format!("{:03}", num)
Fmt03(num) ==
    IF num < 10 THEN "00" \o ToString(num)
    ELSE IF num < 100 THEN "0" \o ToString(num) ELSE ToString(num)

\* str::parse::<usize> on what Fmt03 writes.
ParseNum(s) ==
    IF \E n \in 0..U64_MAX : Fmt03(n) = s
    THEN Some(CHOOSE n \in 0..U64_MAX : Fmt03(n) = s)
    ELSE None

\* files::make_filename: "{name}-journal-{num:03}.dat", kept as the parts
\* that split('-') gives of the stem, and the extension.
make_filename(name, num) ==
    [parts |-> name \o <<"journal", Fmt03(num)>>, ext |-> "dat"]

\* The result of a call that panics.
Panic == <<"panic">>

\* files::next_filename: unwrap_filename(file).unwrap(), then make_filename
\* with the number after it.
next_filename_of(u) ==
    IF u = None THEN Panic
    ELSE [parts |-> u[1].name \o <<"journal", Fmt03(SatAdd(u[1].num))>>,
          ext |-> "dat"]

\* files::unwrap_filename: the name is taken off the front of the parts
\* (remove(0), or drain(..n-2)), and what is left of the parts is matched
\* against the slice pattern [name, "journal", num].
unwrap_filename(file) ==
    IF file.ext # "dat" THEN None
    ELSE LET parts == file.parts
             n == Len(parts)
             rest == IF n = 3 THEN Tail(parts) ELSE SubSeq(parts, n - 1, n)
         IN  IF n < 3 THEN None
             ELSE IF /\ Len(rest) = 3
                     /\ rest[2] = "journal"
                     /\ ParseNum(rest[3]) # None
                  THEN Some([name |-> <<rest[1]>>, num |-> ParseNum(rest[3])[1]])
                  ELSE None

\* files::next_filename
next_filename(file) == next_filename_of(unwrap_filename(file))

(* ------------------------------ journal ------------------------------- *)

\* S::default() of the State of the application, here a count of the
\* entries the State has seen (NoState is the State that does not count).
S_default == 0

\* State::on_add_entry of that State, returning Ok.
on_add_entry(state, e) == state + 1

\* Journal::start_journal: remove a stale file of that number, then create
\* the file anew; the journal is Working with an empty batch::Worker.
start_journal(fs, num) == (num :> EmptyFile) @@ fs

\* The Working journal start_journal returns (batch::Worker::new).
Working(num, state) ==
    [num |-> num, index |-> <<>>, entries |-> <<>>, state |-> state]

\* The journal handed back as it is, still Working.
into_archive_Keeps(j) == j

\* Journal::into_archive: the Worker's index; the pending entries are
\* handed back to the caller.
into_archive(j) == [num |-> j.num, index |-> j.index, state |-> j.state]

\* The entry put in front of the pending entries.
add_entry_Front(j, e) ==
    [j EXCEPT !.state = on_add_entry(@, e), !.entries = <<e>> \o @]

\* Worker::add_entry when the State callback returns Ok: the State has
\* taken the entry in, then the push.
add_entry(j, e) ==
    [j EXCEPT !.state = on_add_entry(@, e), !.entries = Append(@, e)]

\* The entry pushed whatever the State callback returns.
Worker_add_entry_Pushes(j, e, cb) == [res |-> cb, journal |-> add_entry(j, e)]

\* Worker::add_entry, given what State::on_add_entry returns ("Ok" always for
\* NoState, "Ok" or "Err" for a State of the application): on "Err" the `?`
\* returns the error before the push.
Worker_add_entry(j, e, cb) ==
    IF cb = "Ok" THEN [res |-> "Ok", journal |-> add_entry(j, e)]
    ELSE [res |-> "Err", journal |-> j]

\* flush writing a batch also when no entry is pending.
flush_AlwaysWrites(j, fs) ==
    LET fpos == FileLen(fs[j.num])
        batch == [first_seqno |-> IF j.entries = <<>> THEN 0 ELSE Head(j.entries).seqno,
                  last_seqno |-> IF j.entries = <<>> THEN 0 ELSE Last(j.entries).seqno,
                  state |-> j.state,
                  entries |-> j.entries]
        length == BatchLen(batch)
        index == Index(fpos, length, batch.first_seqno, batch.last_seqno)
    IN  [ret |-> Some(index),
         journal |-> [j EXCEPT !.entries = <<>>, !.index = Append(@, index)],
         files |-> [fs EXCEPT ![j.num].batches = Append(@, batch),
                              ![j.num].synced = fpos + length]]

\* flush recording every Index at position 0 of the file.
flush_FposZero(j, fs) ==
    IF j.entries = <<>>
    THEN [journal |-> j, files |-> fs, ret |-> None]
    ELSE LET batch == [first_seqno |-> Head(j.entries).seqno,
                       last_seqno |-> Last(j.entries).seqno,
                       state |-> j.state,
                       entries |-> j.entries]
             length == BatchLen(batch)
             index == Index(0, length, batch.first_seqno, batch.last_seqno)
         IN  [ret |-> Some(index),
              journal |-> [j EXCEPT !.entries = <<>>,
                                    !.index = Append(@, index)],
              files |-> [fs EXCEPT ![j.num].batches = Append(@, batch),
                                   ![j.num].synced = FileLen(fs[j.num]) + length]]

\* Worker::flush on the journal's file: one batch of all pending entries,
\* written by one write at the end of the file and synced by sync_write
\* (which calls sync_all whatever the Config says), and the Index of it
\* recorded.  Nothing is done when there is no pending entry.
flush(j, fs) ==
    IF j.entries = <<>>
    THEN [journal |-> j, files |-> fs, ret |-> None]
    ELSE LET fpos == FileLen(fs[j.num])
             batch == [first_seqno |-> Head(j.entries).seqno,
                       last_seqno |-> Last(j.entries).seqno,
                       state |-> j.state,
                       entries |-> j.entries]
             length == BatchLen(batch)
             index == Index(fpos, length, batch.first_seqno, batch.last_seqno)
         IN  [ret |-> Some(index),
              journal |-> [j EXCEPT !.entries = <<>>,
                                    !.index = Append(@, index)],
              files |-> [fs EXCEPT ![j.num].batches = Append(@, batch),
                                   ![j.num].synced = fpos + length]]

\* to_last_seqno looking at the pending entries only.
Worker_to_last_seqno_Pending(j) ==
    IF j.entries = <<>> THEN None ELSE Some(Last(j.entries).seqno)

\* Worker::to_last_seqno: of the last pending entry, else of the last Index.
Worker_to_last_seqno(j) ==
    IF j.entries = <<>>
    THEN IF j.index = <<>> THEN None ELSE Some(Last(j.index).last_seqno)
    ELSE Some(Last(j.entries).seqno)

\* Journal::file_size of the Working journal.
file_size(j, fs) == FileLen(fs[j.num])

\* The Index list load_archive builds while it walks the batches of a file.
RECURSIVE WalkIndex(_, _)
WalkIndex(bs, fpos) ==
    IF bs = <<>> THEN <<>>
    ELSE <<Index(fpos, BatchLen(Head(bs)),
                 Head(bs).first_seqno, Head(bs).last_seqno)>>
         \o WalkIndex(Tail(bs), fpos + BatchLen(Head(bs)))

\* Journal::load_archive of the file that has number `num` in its name:
\* None when unwrap_filename gives None of the file name or another name,
\* when a decode fails before the end of the file is reached (the `?` leaves
\* the function), or when no batch was read.
load_archive(fs, num) ==
    LET f == fs[num]
        u == unwrap_filename(make_filename(Name, num))
    IN  IF u = None THEN None
        ELSE IF u[1].name # Name THEN None
        ELSE IF f.tail > 0 THEN None
        ELSE IF f.batches = <<>> THEN None
        ELSE Some([num |-> u[1].num, index |-> WalkIndex(f.batches, 0),
                   state |-> Last(f.batches).state])

\* Journal::load_cold of the file that has number `num` in its name: a Cold
\* journal when unwrap_filename gives this WAL's name of the file name.
load_cold(num) ==
    LET u == unwrap_filename(make_filename(Name, num))
    IN  IF u = None THEN None
        ELSE IF u[1].name # Name THEN None
        ELSE Some([num |-> u[1].num])

\* Journal::to_last_seqno of an Archive journal.
to_last_seqno(j) ==
    IF j.index = <<>> THEN None ELSE Some(Last(j.index).last_seqno)

(* ------------------------------- ranges ------------------------------- *)

\* ops::Bound<u64>
Unbounded == [kind |-> "Unbounded", v |-> 0]

Included(v) == [kind |-> "Included", v |-> v]

Excluded(v) == [kind |-> "Excluded", v |-> v]

\* u64 addition and subtraction of one, as the machine computes them.
Add1(x) == (x + 1) % (2^Width)

Sub1(x) == (x + 2^Width - 1) % (2^Width)

\* StartOf without the guard on u64::MAX: the addition wraps.
StartOf_NoGuard(b) ==
    CASE b.kind = "Excluded" -> Some(Add1(b.v))
      [] b.kind = "Included" -> Some(b.v)
      [] OTHER -> Some(0)

\* The start of the closed interval (wral.rs, the first match).
StartOf(b) ==
    CASE b.kind = "Excluded" /\ b.v < U64_MAX -> Some(Add1(b.v))
      [] b.kind = "Excluded" -> None
      [] b.kind = "Included" -> Some(b.v)
      [] OTHER -> Some(0)

\* EndOf taking an excluded end as if it were included.
EndOf_Inclusive(b) ==
    CASE b.kind = "Excluded" /\ b.v = 0 -> None
      [] b.kind = "Excluded" -> Some(b.v)
      [] b.kind = "Included" -> Some(b.v)
      [] OTHER -> Some(U64_MAX)

\* The end of the closed interval (wral.rs, the second match).
EndOf(b) ==
    CASE b.kind = "Excluded" /\ b.v = 0 -> None
      [] b.kind = "Excluded" -> Some(Sub1(b.v))
      [] b.kind = "Included" -> Some(b.v)
      [] OTHER -> Some(U64_MAX)

\* Wral::range_bound_to_range_inclusive: Some(start..=end), or None.
range_bound_to_range_inclusive(sb, eb) ==
    IF StartOf(sb) = None THEN None
    ELSE IF EndOf(eb) = None THEN None
    ELSE Some([start |-> StartOf(sb)[1], end |-> EndOf(eb)[1]])

\* ops::RangeInclusive::contains
Contains(range, sq) == range.start <= sq /\ sq <= range.end

(* ------------------------------ iterators ----------------------------- *)

\* into_iter with the start of the range excluded.
into_iter_ExclusiveStart(batch, range) ==
    SelectSeq(batch.entries,
              LAMBDA e : range.start < e.seqno /\ e.seqno <= range.end)

\* Batch::into_iter: the entries of the batch that lie in the range.
into_iter(batch, range) ==
    SelectSeq(batch.entries, LAMBDA e : Contains(range, e.seqno))

\* from_index without the seek: the batch at the start of the file.
from_index_NoSeek(index, f) ==
    IF f.batches = <<>> THEN None ELSE Some(Head(f.batches))

\* Batch::from_index: seek to fpos, read exactly `length` bytes and decode
\* one batch from them (bytes after the decoded value are ignored).
from_index(index, f) ==
    LET at == {i \in 1..Len(f.batches) :
                  /\ Offset(f.batches, i) = index.fpos
                  /\ BatchLen(f.batches[i]) <= index.length}
    IN  IF index.fpos + index.length <= FileLen(f) /\ at # {}
        THEN Some(f.batches[CHOOSE i \in at : TRUE])
        ELSE None

\* RdJournal::from_journal: a snapshot of the journal's Index list and of
\* the entries it holds unflushed (none for an Archive journal).
from_journal(j, range) ==
    [num |-> j.num, range |-> range, index |-> j.index,
     entries |-> IF "entries" \in DOMAIN j THEN j.entries ELSE <<>>]

\* What RdJournal yields after its pending entries: for each Index in
\* turn the batch read from the file, filtered; an Err item for a batch
\* that cannot be read, and then the next Index.
RECURSIVE RdBatches(_, _, _)
RdBatches(index, f, range) ==
    IF index = <<>> THEN <<>>
    ELSE LET b == from_index(Head(index), f)
             items == IF b = None THEN <<Err>>
                      ELSE LET es == into_iter(b[1], range)
                           IN  [i \in 1..Len(es) |-> Ok(es[i])]
         IN  items \o RdBatches(Tail(index), f, range)

\* RdJournal drained to its end: first the snapshot of the unflushed
\* entries that lie in the range, then the batches of the Index list.
RdJournalItems(rj, fs) ==
    LET es == SelectSeq(rj.entries, LAMBDA e : Contains(rj.range, e.seqno))
    IN  [i \in 1..Len(es) |-> Ok(es[i])] \o RdBatches(rj.index, fs[rj.num], rj.range)

\* Iter::next until None: the journals of the snapshot one after the
\* other, each drained to its end.
RECURSIVE IterItems(_, _)
IterItems(rjs, fs) ==
    IF rjs = <<>> THEN <<>>
    ELSE RdJournalItems(Head(rjs), fs) \o IterItems(Tail(rjs), fs)

(* ------------------------------- state -------------------------------- *)

VARIABLES
    files,      \* the directory: journal number -> file ({name}-journal-{num}.dat)
    seqno,      \* Writer.seqno, the atomic counter of the next seqno
    journals,   \* Writer.journals, the Archive journals
    journal,    \* Writer.journal, the Working journal
    rx,         \* the requests in the channel to the writer thread
    reqs,       \* MainLoop::run, the requests of the current drain window
    items,      \* MainLoop::run, the (seqno, tx) pairs still to be answered
    cpc,        \* where the writer thread is in MainLoop::run
    hst,        \* per caller: its handle and whether it waits in add_op
    pend,       \* per caller: the op of its outstanding add_op
    returned,   \* per caller: the (seqno, op) of its add_op calls that returned
    rd,         \* the reader: its range, the snapshot range took, what it yielded
    epoch,      \* number of times the WAL was loaded again
    sent,       \* number of add_op calls made so far
    log,        \* history: the entries given a seqno by this instance, in order
    prev,       \* history: what the instances before this one did
    closed,     \* per caller: what its calls of close and purge returned
    config,     \* the Config the instance was made with
    probe       \* a call of a function of files.rs or batch.rs, and its result

vars == <<files, seqno, journals, journal, rx, reqs, items, cpc, hst, pend,
          returned, rd, epoch, sent, log, prev, closed, config, probe>>

\* The (seqno, op) pairs that add_op calls of this instance returned.
Acked == UNION {{returned[c][i] : i \in 1..Len(returned[c])} : c \in Callers}

\* No function is being called on its own.
ProbeIdle == [pc |-> "idle"]

RdIdle ==
    [pc |-> "idle", sb |-> Unbounded, eb |-> Unbounded, range |-> None,
     journals |-> <<>>, out |-> <<>>, acked |-> {}, log |-> <<>>]

\* Wral::create on an empty directory: journal number 0, next seqno 1, the
\* writer thread blocked in recv, every caller holding a clone of the handle.
\* (Init, below, is this with the Config that Config::new makes.)
InitState ==
    /\ files = start_journal(<<>>, 0)
    /\ seqno = 1
    /\ journals = <<>>
    /\ journal = Working(0, S_default)
    /\ rx = <<>>
    /\ reqs = <<>>
    /\ items = <<>>
    /\ cpc = "recv"
    /\ hst = [c \in Callers |-> "idle"]
    /\ pend = [c \in Callers |-> <<>>]
    /\ returned = [c \in Callers |-> <<>>]
    /\ rd = RdIdle
    /\ epoch = 0
    /\ sent = 0
    /\ log = <<>>
    /\ prev = [log |-> <<>>, acked |-> {}, graceful |-> TRUE]
    /\ closed = [c \in Callers |-> <<>>]
    /\ probe = ProbeIdle

\* Config::new: fsync is true.
Config_new == [fsync |-> TRUE]

\* Config::set_fsync
set_fsync(cfg, fsync) == [cfg EXCEPT !.fsync = fsync]

Init == InitState /\ config = Config_new

\* The writer thread holds the write lock of the Writer from the end of the
\* drain to the end of the loop body.
WriteLocked == cpc \in {"add_entry", "flush", "send", "rotate"}

\* The process runs and the writer thread has not returned Ok.
Up == cpc \notin {"exit", "down"}

\* The callers that hold the read lock of the Writer inside range.
ReadLocked ==
    IF probe.pc = "readers"
    THEN {c \in Callers : probe.st[c] = "locked"}
    ELSE {}

\* The callers that hold a handle: the strong count of the Arcs of
\* Wral.t and Wral.w, and the clones of the Tx outside the Thread.
Live == {c \in Callers : hst[c] # "dropped"}

(* ------------------------------ callers ------------------------------- *)

\* Wral::add_op, the send half of Tx::request: the request goes into the
\* channel and the caller blocks on its reply channel.
AddOp(c, op) ==
    /\ Up
    /\ cpc # "failed"
    /\ hst[c] = "idle"
    /\ c \notin ReadLocked
    /\ sent < MaxOps
    /\ Len(rx) < SYNC_BUFFER
    /\ rx' = Append(rx, [op |-> op, tx |-> Some(c)])
    /\ hst' = [hst EXCEPT ![c] = "waiting"]
    /\ pend' = [pend EXCEPT ![c] = op]
    /\ sent' = sent + 1
    /\ UNCHANGED <<files, seqno, journals, journal, reqs, items, cpc,
                   returned, rd, epoch, log, prev, closed, config, probe>>

(* --------------------------- the writer thread ------------------------ *)

\* MainLoop::run, `self.rx.recv()` returning a request.
Recv ==
    /\ cpc = "recv"
    /\ rx # <<>>
    /\ reqs' = <<Head(rx)>>
    /\ rx' = Tail(rx)
    /\ cpc' = "try_recv"
    /\ UNCHANGED <<files, seqno, journals, journal, items, hst, pend,
                   returned, rd, epoch, sent, log, prev, closed, config, probe>>

\* MainLoop::run, one `self.rx.try_recv()`: another request, or Empty (the
\* channel is empty and a sender lives), which ends the drain; the write
\* lock is taken next, `self.w.write()`, when no reader holds the lock.
TryRecv ==
    /\ cpc = "try_recv"
    /\ IF rx # <<>>
       THEN /\ reqs' = Append(reqs, Head(rx))
            /\ rx' = Tail(rx)
            /\ cpc' = cpc
       ELSE /\ Live # {}
            /\ ReadLocked = {}
            /\ cpc' = "add_entry"
            /\ UNCHANGED <<reqs, rx>>
    /\ UNCHANGED <<files, seqno, journals, journal, items, hst, pend,
                   returned, rd, epoch, sent, log, prev, closed, config, probe>>

\* The counter read but not advanced.
fetch_add_Stale(sq) == sq

\* The value `self.seqno.fetch_add(1, SeqCst)` leaves in the counter.
fetch_add(sq) == Add1(sq)

\* The for loop over the drained requests: each is given the next seqno by
\* fetch_add, its entry is added to the journal, and (seqno, tx) is kept.
RECURSIVE AddAll(_, _)
AddAll(rs, st) ==
    IF rs = <<>> THEN st
    ELSE LET sq == st.seqno
             e == Entry(sq, Head(rs).op)
         IN  AddAll(Tail(rs),
                    [seqno |-> fetch_add(sq),
                     journal |-> Worker_add_entry(st.journal, e, "Ok").journal,
                     items |-> Append(st.items, [seqno |-> sq, tx |-> Head(rs).tx]),
                     log |-> Append(st.log, e)])

AddEntries ==
    /\ cpc = "add_entry"
    /\ LET st == AddAll(reqs, [seqno |-> seqno, journal |-> journal,
                               items |-> <<>>, log |-> log])
       IN  /\ seqno' = st.seqno
           /\ journal' = st.journal
           /\ items' = st.items
           /\ log' = st.log
    /\ reqs' = <<>>
    /\ cpc' = "flush"
    /\ UNCHANGED <<files, journals, rx, hst, pend, returned, rd, epoch,
                   sent, prev, closed, config, probe>>

\* The replies sent without the batch having been flushed.
Flush_Deferred ==
    /\ cpc = "flush"
    /\ cpc' = "send"
    /\ UNCHANGED <<files, seqno, journals, journal, rx, reqs, items, hst,
                   pend, returned, rd, epoch, sent, log, prev, closed, config, probe>>

\* `w.journal.flush()?`
Flush ==
    /\ cpc = "flush"
    /\ LET r == flush(journal, files)
       IN  /\ journal' = r.journal
           /\ files' = r.files
    /\ cpc' = "send"
    /\ UNCHANGED <<seqno, journals, rx, reqs, items, hst, pend, returned,
                   rd, epoch, sent, log, prev, closed, config, probe>>

\* Every caller of a drain window answered with the window's last seqno.
Send_LastSeqno ==
    /\ cpc = "send"
    /\ items # <<>>
    /\ LET c == Head(items).tx[1]
       IN  /\ returned' = [returned EXCEPT
                             ![c] = Append(@, Entry(Last(items).seqno, pend[c]))]
           /\ hst' = [hst EXCEPT ![c] = "idle"]
    /\ items' = Tail(items)
    /\ cpc' = IF Tail(items) = <<>> THEN "rotate" ELSE cpc
    /\ UNCHANGED <<files, seqno, journals, journal, rx, reqs, pend, rd,
                   epoch, sent, log, prev, closed, config, probe>>

\* An item taken from the list without its reply being sent.
Send_SkipReply ==
    /\ cpc = "send"
    /\ items # <<>>
    /\ items' = Tail(items)
    /\ cpc' = IF Tail(items) = <<>> THEN "rotate" ELSE cpc
    /\ UNCHANGED <<files, seqno, journals, journal, rx, reqs, hst, pend,
                   returned, rd, epoch, sent, log, prev, closed, config, probe>>

\* One turn of the loop over the items: nothing for an item without a reply
\* channel; else `tx.send(Res::Seqno(seqno))` to a caller that waits for
\* it, whose add_op returns the seqno.
Send ==
    /\ cpc = "send"
    /\ items # <<>>
    /\ LET it == Head(items)
       IN  IF it.tx = None
           THEN UNCHANGED <<returned, hst>>
           ELSE LET c == it.tx[1]
                IN  /\ hst[c] = "waiting"
                    /\ returned' = [returned EXCEPT
                                      ![c] = Append(@, Entry(it.seqno, pend[c]))]
                    /\ hst' = [hst EXCEPT ![c] = "idle"]
    /\ items' = Tail(items)
    /\ cpc' = IF Tail(items) = <<>> THEN "rotate" ELSE cpc
    /\ UNCHANGED <<files, seqno, journals, journal, rx, reqs, pend, rd,
                   epoch, sent, log, prev, closed, config, probe>>

\* rotate without the push of the archived journal.
rotate_NoPush(w, fs) ==
    LET num == SatAdd(w.journal.num)
    IN  [files |-> start_journal(fs, num),
         journal |-> Working(num, w.journal.state),
         journals |-> w.journals]

\* rotate with the archived journal put at the head of the list.
rotate_Front(w, fs) ==
    LET num == SatAdd(w.journal.num)
    IN  [files |-> start_journal(fs, num),
         journal |-> Working(num, w.journal.state),
         journals |-> <<into_archive(w.journal)>> \o w.journals]

\* MainLoop::rotate: a new Working journal of the next number replaces the
\* current one, which is archived and pushed to `w.journals`.
rotate(w, fs) ==
    LET num == SatAdd(w.journal.num)
    IN  [files |-> start_journal(fs, num),
         journal |-> Working(num, w.journal.state),
         journals |-> Append(w.journals, into_archive(w.journal))]

\* The end of the loop body rotating already at the limit.
RotateCheck_AtLimit ==
    /\ cpc = "rotate"
    /\ IF file_size(journal, files) >= JournalLimit
       THEN LET r == rotate([journal |-> journal, journals |-> journals], files)
            IN  /\ files' = r.files
                /\ journal' = r.journal
                /\ journals' = r.journals
       ELSE UNCHANGED <<files, journal, journals>>
    /\ cpc' = "recv"
    /\ UNCHANGED <<seqno, rx, reqs, items, hst, pend, returned, rd, epoch,
                   sent, log, prev, closed, config, probe>>

\* The end of the loop body: rotate if the file is larger than the limit;
\* the write lock is released.
RotateCheck ==
    /\ cpc = "rotate"
    /\ IF file_size(journal, files) > JournalLimit
       THEN LET r == rotate([journal |-> journal, journals |-> journals], files)
            IN  /\ files' = r.files
                /\ journal' = r.journal
                /\ journals' = r.journals
       ELSE UNCHANGED <<files, journal, journals>>
    /\ cpc' = "recv"
    /\ UNCHANGED <<seqno, rx, reqs, items, hst, pend, returned, rd, epoch,
                   sent, log, prev, closed, config, probe>>

(* ------------------------------- readers ------------------------------ *)

\* range without the RdJournal of the Working journal.
range_ArchivesOnly(w, sb, eb) ==
    LET r == range_bound_to_range_inclusive(sb, eb)
    IN  [range |-> r,
         journals |->
            IF r = None THEN <<>>
            ELSE [i \in 1..Len(w.journals) |-> from_journal(w.journals[i], r[1])]]

\* Wral::range up to the construction of Iter: the bounds are normalized
\* and an RdJournal is made of every Archive journal and of the Working
\* journal; no journal is taken when the bounds give no interval.
range(w, sb, eb) ==
    LET r == range_bound_to_range_inclusive(sb, eb)
    IN  [range |-> r,
         journals |->
            IF r = None THEN <<>>
            ELSE [i \in 1..Len(w.journals) |-> from_journal(w.journals[i], r[1])]
                 \o <<from_journal(w.journal, r[1])>>]

\* A call of range on a live handle; the snapshot is taken under the read
\* lock of the Writer.
RangeOpen(sb, eb) ==
    /\ Up
    /\ \E c \in Callers : hst[c] # "dropped"
    /\ ~WriteLocked
    /\ rd.pc = "idle"
    /\ LET it == range([journals |-> journals, journal |-> journal], sb, eb)
       IN  rd' = [pc |-> "open", sb |-> sb, eb |-> eb, range |-> it.range,
                  journals |-> it.journals, out |-> <<>>,
                  acked |-> Acked, log |-> log]
    /\ UNCHANGED <<files, seqno, journals, journal, rx, reqs, items, cpc,
                   hst, pend, returned, epoch, sent, log, prev,
                   closed, config, probe>>

\* The iterator consumed to its end (Iter::next until None), without a
\* lock, reading the files as they are by then.
RangeCollect ==
    /\ cpc # "down"
    /\ rd.pc = "open"
    /\ rd' = [rd EXCEPT !.pc = "done", !.out = IterItems(rd.journals, files)]
    /\ UNCHANGED <<files, seqno, journals, journal, rx, reqs, items, cpc,
                   hst, pend, returned, epoch, sent, log, prev,
                   closed, config, probe>>

\* The iterator is dropped.
RangeDrop ==
    /\ rd.pc = "done"
    /\ rd' = RdIdle
    /\ UNCHANGED <<files, seqno, journals, journal, rx, reqs, items, cpc,
                   hst, pend, returned, epoch, sent, log, prev,
                   closed, config, probe>>

\* The bounds given to range: every kind of bound at both ends, the
\* single seqnos, intervals below, inside and beyond the logged seqnos.
Ranges ==
    {<<Unbounded, Unbounded>>,
     <<Included(2), Unbounded>>, <<Unbounded, Included(2)>>,
     <<Excluded(1), Excluded(3)>>, <<Excluded(0), Included(1)>>,
     <<Included(MaxOps + 1), Unbounded>>, <<Included(U64_MAX), Unbounded>>,
     <<Excluded(U64_MAX), Unbounded>>, <<Unbounded, Excluded(0)>>,
     <<Unbounded, Included(0)>>, <<Included(3), Included(1)>>}
    \cup {<<Included(n), Included(n)>> : n \in 1..MaxOps}

(* ------------------------- readers and the lock ----------------------- *)

\* No caller is inside range or holds an iterator.
NoReaders ==
    [pc |-> "readers", st |-> [c \in Callers |-> "none"],
     snap |-> [c \in Callers |-> <<>>], shared |-> FALSE]

\* The state of the callers as readers.
Readers == IF probe.pc = "readers" THEN probe ELSE NoReaders

\* The iterator keeping the read lock for as long as it lives.
ReadRelease_Holds(c) ==
    /\ Readers.st[c] = "locked"
    /\ Readers.snap[c] = <<>>
    /\ probe' = [Readers EXCEPT !.snap[c] = <<[journals |-> journals,
                                               journal |-> journal]>>]
    /\ UNCHANGED <<files, seqno, journals, journal, rx, reqs, items, cpc, hst,
                   pend, returned, rd, epoch, sent, log, prev, closed, config>>

\* Wral::range, `m.read()`: the caller takes the read lock of the Writer,
\* which it gets while the writer thread does not hold the write lock.
ReadLock(c) ==
    /\ Up
    /\ hst[c] = "idle"
    /\ ~WriteLocked
    /\ Readers.st[c] = "none"
    /\ probe' = [Readers EXCEPT !.st[c] = "locked",
                                !.shared = @ \/ ReadLocked # {}]
    /\ UNCHANGED <<files, seqno, journals, journal, rx, reqs, items, cpc, hst,
                   pend, returned, rd, epoch, sent, log, prev, closed, config>>

\* Wral::range, the rest of the match arm: the journals are copied from the
\* Writer and the guard `rd` is dropped at the end of the arm; the Iter that
\* range returns holds the copies and no lock.
ReadRelease(c) ==
    /\ Readers.st[c] = "locked"
    /\ probe' = [Readers EXCEPT !.st[c] = "iter",
                                !.snap[c] = <<[journals |-> journals,
                                               journal |-> journal]>>]
    /\ UNCHANGED <<files, seqno, journals, journal, rx, reqs, items, cpc, hst,
                   pend, returned, rd, epoch, sent, log, prev, closed, config>>

\* The Iter is dropped.
IterDrop(c) ==
    /\ Readers.st[c] = "iter"
    /\ probe' = [Readers EXCEPT !.st[c] = "none", !.snap[c] = <<>>]
    /\ UNCHANGED <<files, seqno, journals, journal, rx, reqs, items, cpc, hst,
                   pend, returned, rd, epoch, sent, log, prev, closed, config>>

(* ------------------------------- errors ------------------------------- *)

\* What a failed util::sync_write may leave of the batch in the file:
\* nothing, or a part of it.
FailedWrites(j, fs) ==
    LET n == FileLen(flush(j, fs).files[j.num]) - FileLen(fs[j.num])
    IN  {fs} \cup {[fs EXCEPT ![j.num].tail = k] : k \in 1..(n - 1)}

\* The loop going on to the replies after a flush that failed.
FlushFail_Continues ==
    /\ cpc = "flush"
    /\ journal.entries # <<>>
    /\ files' \in FailedWrites(journal, files)
    /\ journal' = [journal EXCEPT !.entries = <<>>]
    /\ cpc' = "send"
    /\ UNCHANGED <<seqno, journals, rx, reqs, items, hst, pend, returned, rd,
                   epoch, sent, log, prev, closed, config, probe>>

\* `w.journal.add_entry(..)?` failing on the k-th request of the window,
\* because the State callback returned an error: the requests before it
\* were given a seqno and added, the k-th was given a seqno by fetch_add and
\* not added; run returns the error, and the Rx, the drained requests and
\* their reply channels are dropped with it.  `probe` keeps the failed call.
AddEntriesFail ==
    /\ cpc = "add_entry"
    /\ \E k \in 1..Len(reqs) :
          LET st == AddAll(SubSeq(reqs, 1, k - 1),
                           [seqno |-> seqno, journal |-> journal,
                            items |-> <<>>, log |-> log])
              e == Entry(st.seqno, reqs[k].op)
              r == Worker_add_entry(st.journal, e, "Err")
          IN  /\ seqno' = fetch_add(st.seqno)
              /\ journal' = r.journal
              /\ log' = st.log
              /\ probe' = [pc |-> "add_entry", journal |-> st.journal,
                           entry |-> e, res |-> r.res]
    /\ cpc' = "failed"
    /\ rx' = <<>>
    /\ reqs' = <<>>
    /\ items' = <<>>
    /\ UNCHANGED <<files, journals, hst, pend, returned, rd, epoch, sent,
                   prev, closed, config>>

\* `w.journal.flush()?` failing with an IOError: the entries were drained
\* from the Worker, run returns the error, and the Rx, the drained requests
\* and their reply channels are dropped with it.
FlushFail ==
    /\ cpc = "flush"
    /\ journal.entries # <<>>
    /\ files' \in FailedWrites(journal, files)
    /\ journal' = [journal EXCEPT !.entries = <<>>]
    /\ cpc' = "failed"
    /\ rx' = <<>>
    /\ reqs' = <<>>
    /\ items' = <<>>
    /\ UNCHANGED <<seqno, journals, hst, pend, returned, rd, epoch, sent,
                   log, prev, closed, config, probe>>

\* Wral::add_op, the receive half of Tx::request, when the reply channel
\* was dropped: add_op returns an error.
AddOpFail(c) ==
    /\ cpc = "failed"
    /\ hst[c] = "waiting"
    /\ hst' = [hst EXCEPT ![c] = "idle"]
    /\ UNCHANGED <<files, seqno, journals, journal, rx, reqs, items, cpc,
                   pend, returned, rd, epoch, sent, log, prev, closed, config, probe>>

\* Wral::add_op when the writer thread has returned: the send of Tx::request
\* fails and add_op returns an error at once.
AddOpDisconnected(c, op) ==
    /\ cpc = "failed"
    /\ hst[c] = "idle"
    /\ sent < MaxOps
    /\ sent' = sent + 1
    /\ UNCHANGED <<files, seqno, journals, journal, rx, reqs, items, cpc, hst,
                   pend, returned, rd, epoch, log, prev, closed, config, probe>>

\* A request sent without a reply channel, (req, None): the sender does not
\* wait.  (The item type of the channel, writer.rs:147-151; add_op does not
\* send one.)
Post(c, op) ==
    /\ Up
    /\ cpc # "failed"
    /\ hst[c] = "idle"
    /\ sent < MaxOps
    /\ Len(rx) < SYNC_BUFFER
    /\ rx' = Append(rx, [op |-> op, tx |-> None])
    /\ sent' = sent + 1
    /\ UNCHANGED <<files, seqno, journals, journal, reqs, items, cpc, hst,
                   pend, returned, rd, epoch, log, prev, closed, config, probe>>

\* The receiving end of a caller's reply channel is dropped before the reply
\* is sent, and the caller's handle with it.
DropReply(c) ==
    /\ Up
    /\ cpc # "failed"
    /\ hst[c] = "waiting"
    /\ hst' = [hst EXCEPT ![c] = "dropped"]
    /\ UNCHANGED <<files, seqno, journals, journal, rx, reqs, items, cpc,
                   pend, returned, rd, epoch, sent, log, prev, closed, config, probe>>

\* MainLoop::run, `self.rx.try_recv()` returning Disconnected: `break 'a`
\* leaves the outer loop, and the requests drained so far are dropped with
\* the vector that holds them.
TryRecvDisconnected ==
    /\ cpc = "try_recv"
    /\ rx = <<>>
    /\ Live = {}
    /\ reqs' = <<>>
    /\ cpc' = "exit"
    /\ UNCHANGED <<files, seqno, journals, journal, rx, items, hst, pend,
                   returned, rd, epoch, sent, log, prev, closed, config, probe>>

\* `err_at!(IPCFail, tx.send(Res::Seqno(seqno)))?` when the receiver of the
\* reply channel was dropped: run returns the error, and the Rx and the
\* items not yet answered are dropped with it.
SendFail ==
    /\ cpc = "send"
    /\ items # <<>>
    /\ Head(items).tx # None
    /\ hst[Head(items).tx[1]] = "dropped"
    /\ cpc' = "failed"
    /\ rx' = <<>>
    /\ reqs' = <<>>
    /\ items' = <<>>
    /\ UNCHANGED <<files, seqno, journals, journal, hst, pend, returned, rd,
                   epoch, sent, log, prev, closed, config, probe>>

(* --------------------------- close and purge -------------------------- *)

\* What close and purge return: Ok(None), Ok(Some(seqno)) or Err.
CloseRes(call, ok, val) == [call |-> call, ok |-> ok, val |-> val]

\* u64::saturating_sub(1)
SatSub(n) == IF n > 0 THEN n - 1 ELSE 0

\* Writer::close: the last seqno given out.
Writer_close(sq) == SatSub(sq)

\* Writer::purge: the files of the Archive journals and of the Working
\* journal are removed.
Writer_purge(w, fs) ==
    LET gone == {w.journals[i].num : i \in 1..Len(w.journals)} \cup {w.journal.num}
    IN  [n \in DOMAIN fs \ gone |-> fs[n]]

\* close giving up the handle when it returns Ok(None).
Close_DropsHandle(c) ==
    /\ cpc # "down"
    /\ hst[c] = "idle"
    /\ Len(closed[c]) < MaxCloses
    /\ IF Live = {c}
       THEN /\ hst' = [hst EXCEPT ![c] = "close_wait"]
            /\ UNCHANGED closed
       ELSE /\ closed' = [closed EXCEPT
                            ![c] = Append(@, CloseRes("close", TRUE, None))]
            /\ hst' = [hst EXCEPT ![c] = "dropped"]
    /\ UNCHANGED <<files, seqno, journals, journal, rx, reqs, items, cpc,
                   pend, returned, rd, epoch, sent, log, prev, config, probe>>

\* Wral::close up to Thread::close_wait.  With another handle alive both
\* Arc::try_unwrap fail, the Arcs are put back and Ok(None) is returned.
\* On the only handle try_unwrap gives the Thread and close_wait is called:
\* it drops the Thread's own Tx and joins the writer thread, while the
\* handle keeps its field `tx`.
Close(c) ==
    /\ cpc # "down"
    /\ hst[c] = "idle"
    /\ Len(closed[c]) < MaxCloses
    /\ IF Live = {c}
       THEN /\ hst' = [hst EXCEPT ![c] = "close_wait"]
            /\ UNCHANGED closed
       ELSE /\ closed' = [closed EXCEPT
                            ![c] = Append(@, CloseRes("close", TRUE, None))]
            /\ UNCHANGED hst
    /\ UNCHANGED <<files, seqno, journals, journal, rx, reqs, items, cpc,
                   pend, returned, rd, epoch, sent, log, prev, config, probe>>

\* Wral::close after close_wait has joined the writer thread: the error of
\* the thread is returned, or Some of what Writer::close returns.
CloseWait(c) ==
    /\ hst[c] = "close_wait"
    /\ cpc \in {"exit", "failed"}
    /\ closed' = [closed EXCEPT
                    ![c] = Append(@, IF cpc = "exit"
                                     THEN CloseRes("close", TRUE,
                                                   Some(Writer_close(seqno)))
                                     ELSE CloseRes("close", FALSE, None))]
    /\ hst' = [hst EXCEPT ![c] = "closed"]
    /\ UNCHANGED <<files, seqno, journals, journal, rx, reqs, items, cpc,
                   pend, returned, rd, epoch, sent, log, prev, config, probe>>

\* Wral::purge up to Thread::close_wait; purge takes the handle by value,
\* so the handle is dropped when Ok(None) is returned.
Purge(c) ==
    /\ cpc # "down"
    /\ hst[c] = "idle"
    /\ Len(closed[c]) < MaxCloses
    /\ IF Live = {c}
       THEN /\ hst' = [hst EXCEPT ![c] = "purge_wait"]
            /\ UNCHANGED closed
       ELSE /\ closed' = [closed EXCEPT
                            ![c] = Append(@, CloseRes("purge", TRUE, None))]
            /\ hst' = [hst EXCEPT ![c] = "dropped"]
    /\ UNCHANGED <<files, seqno, journals, journal, rx, reqs, items, cpc,
                   pend, returned, rd, epoch, sent, log, prev, config, probe>>

\* Wral::purge after close_wait has joined the writer thread: the error of
\* the thread is returned, or Writer::purge removes the files.
PurgeWait(c) ==
    /\ hst[c] = "purge_wait"
    /\ cpc \in {"exit", "failed"}
    /\ IF cpc = "exit"
       THEN /\ files' = Writer_purge([journals |-> journals,
                                      journal |-> journal], files)
            /\ closed' = [closed EXCEPT
                            ![c] = Append(@, CloseRes("purge", TRUE,
                                                      Some(Writer_close(seqno))))]
       ELSE /\ closed' = [closed EXCEPT
                            ![c] = Append(@, CloseRes("purge", FALSE, None))]
            /\ UNCHANGED files
    /\ hst' = [hst EXCEPT ![c] = "dropped"]
    /\ UNCHANGED <<seqno, journals, journal, rx, reqs, items, cpc, pend,
                   returned, rd, epoch, sent, log, prev, config, probe>>

\* Writer::close called on the Writer after the writer thread has returned.
WriterClose ==
    /\ cpc \in {"exit", "failed"}
    /\ probe.pc # "close"
    /\ probe' = [pc |-> "close", ret |-> Writer_close(seqno)]
    /\ UNCHANGED <<files, seqno, journals, journal, rx, reqs, items, cpc, hst,
                   pend, returned, rd, epoch, sent, log, prev, closed, config>>

(* --------------------------- stop and restart ------------------------- *)

\* A caller's clone of the handle is dropped (its Tx with it).
DropHandle(c) ==
    /\ Up
    /\ hst[c] = "idle"
    /\ hst' = [hst EXCEPT ![c] = "dropped"]
    /\ UNCHANGED <<files, seqno, journals, journal, rx, reqs, items, cpc,
                   pend, returned, rd, epoch, sent, log, prev, closed, config, probe>>

\* MainLoop::run, `self.rx.recv()` returning Err: every sender is dropped
\* and the channel is empty; the loop ends and the thread returns.
RecvDisconnected ==
    /\ cpc = "recv"
    /\ rx = <<>>
    /\ \A c \in Callers : hst[c] = "dropped"
    /\ cpc' = "exit"
    /\ UNCHANGED <<files, seqno, journals, journal, rx, reqs, items, hst,
                   pend, returned, rd, epoch, sent, log, prev, closed, config, probe>>

\* What a crash during the write of Worker::flush may leave of the batch in
\* the file: nothing, the whole batch, or a part of it that does not decode.
CrashedWrites(j, fs) ==
    IF j.entries = <<>> THEN {fs}
    ELSE LET whole == flush(j, fs).files
             n == FileLen(whole[j.num]) - FileLen(fs[j.num])
         IN  {fs, whole} \cup {[fs EXCEPT ![j.num].tail = k] : k \in 1..(n - 1)}

\* The process crashes: the files stay as they are, everything else is lost.
Crash ==
    /\ Up
    /\ epoch < MaxRestarts
    /\ files' \in (IF cpc = "flush" THEN CrashedWrites(journal, files) ELSE {files})
    /\ prev' = [log |-> prev.log \o log, acked |-> prev.acked \cup Acked,
                graceful |-> FALSE]
    /\ cpc' = "down"
    /\ seqno' = 0
    /\ journals' = <<>>
    /\ journal' = Working(0, S_default)
    /\ rx' = <<>>
    /\ reqs' = <<>>
    /\ items' = <<>>
    /\ hst' = [c \in Callers |-> "dropped"]
    /\ pend' = [c \in Callers |-> <<>>]
    /\ returned' = [c \in Callers |-> <<>>]
    /\ rd' = RdIdle
    /\ log' = <<>>
    /\ closed' = [c \in Callers |-> <<>>]
    /\ UNCHANGED <<epoch, sent, config, probe>>

\* The orders `journals.sort_by` may leave the loaded journals in: sorted by
\* their last seqno (fs::read_dir lists the files in any order).
SortedByLastSeqno(js) ==
    {s \in [1..Cardinality(js) -> js] :
        /\ \A i, k \in DOMAIN s : i # k => s[i] # s[k]
        /\ \A i, k \in DOMAIN s :
              i < k => to_last_seqno(s[i])[1] <= to_last_seqno(s[k])[1]}

\* Wral::load: every file that load_archive accepts becomes an Archive
\* journal; the next seqno and the number of the new Working journal follow
\* the journal with the highest last seqno.
load(fs) ==
    LET loaded == {load_archive(fs, n)[1] :
                      n \in {m \in DOMAIN fs : load_archive(fs, m) # None}}
    IN  {LET sq == IF js = <<>> THEN 0 ELSE to_last_seqno(Last(js))[1]
             num == SatAdd(IF js = <<>> THEN 0 ELSE Last(js).num)
             state == IF js = <<>> THEN S_default ELSE Last(js).state
         IN  [files |-> start_journal(fs, num),
              journals |-> js,
              journal |-> Working(num, state),
              seqno |-> Add1(sq)] : js \in SortedByLastSeqno(loaded)}

\* Wral::load by a new process, after a crash or after every handle was
\* dropped and the writer thread has returned.
Load ==
    /\ ~Up
    /\ epoch < MaxRestarts
    /\ \E w \in load(files) :
          /\ files' = w.files
          /\ journals' = w.journals
          /\ journal' = w.journal
          /\ seqno' = w.seqno
    /\ prev' = IF cpc = "exit"
               THEN [log |-> prev.log \o log, acked |-> prev.acked \cup Acked,
                     graceful |-> prev.graceful]
               ELSE prev
    /\ epoch' = epoch + 1
    /\ cpc' = "recv"
    /\ rx' = <<>>
    /\ reqs' = <<>>
    /\ items' = <<>>
    /\ hst' = [c \in Callers |-> "idle"]
    /\ pend' = [c \in Callers |-> <<>>]
    /\ returned' = [c \in Callers |-> <<>>]
    /\ rd' = RdIdle
    /\ log' = <<>>
    /\ closed' = [c \in Callers |-> <<>>]
    /\ UNCHANGED <<sent, config, probe>>

\* Wral::create on a directory as it is: every file of which load_cold makes
\* a Cold journal is removed (Journal::purge), then journal number 0 is
\* started, with 1 the next seqno.
create(fs) ==
    LET cold == {load_cold(n)[1].num : n \in {m \in DOMAIN fs : load_cold(m) # None}}
        kept == [n \in DOMAIN fs \ cold |-> fs[n]]
    IN  [files |-> start_journal(kept, 0),
         journals |-> <<>>,
         journal |-> Working(0, S_default),
         seqno |-> 1]

\* Wral::create by a new process with the same Config, after a crash or
\* after every handle was dropped and the writer thread has returned.
Create ==
    /\ ~Up
    /\ epoch < MaxRestarts
    /\ LET w == create(files)
       IN  /\ files' = w.files
           /\ journals' = w.journals
           /\ journal' = w.journal
           /\ seqno' = w.seqno
    /\ prev' = IF cpc = "exit"
               THEN [log |-> prev.log \o log, acked |-> prev.acked \cup Acked,
                     graceful |-> prev.graceful]
               ELSE prev
    /\ epoch' = epoch + 1
    /\ cpc' = "recv"
    /\ rx' = <<>>
    /\ reqs' = <<>>
    /\ items' = <<>>
    /\ hst' = [c \in Callers |-> "idle"]
    /\ pend' = [c \in Callers |-> <<>>]
    /\ returned' = [c \in Callers |-> <<>>]
    /\ rd' = RdIdle
    /\ log' = <<>>
    /\ closed' = [c \in Callers |-> <<>>]
    /\ UNCHANGED <<sent, config, probe>>

(* --------------------------- calls of files.rs ------------------------ *)

\* The WAL names given to make_filename, as their '-'-separated parts.
Names == {<<"wal">>, <<"my", "wal">>, <<"a", "b", "c">>, <<"journal">>}

\* File names that make_filename does not write: another extension, no
\* "journal" before the number, a number that is no number.
ForeignFiles ==
    {[parts |-> nm \o <<j, n>>, ext |-> x] :
        nm \in Names, j \in {"journal", "jrnl"}, n \in {"000", "abc"},
        x \in {"dat", "txt"}}
    \ {[parts |-> nm \o <<"journal", "000">>, ext |-> "dat"] : nm \in Names}

\* make_filename(name, num)
ProbeMake(name, num) ==
    /\ probe.pc = "idle"
    /\ probe' = [pc |-> "made", name |-> name, num |-> num,
                 file |-> make_filename(name, num)]
    /\ UNCHANGED <<files, seqno, journals, journal, rx, reqs, items, cpc, hst,
                   pend, returned, rd, epoch, sent, log, prev, closed, config>>

\* unwrap_filename of the file name that make_filename wrote.
ProbeUnwrap ==
    /\ probe.pc = "made"
    /\ probe' = [probe EXCEPT !.pc = "unwrapped",
                              !.file = unwrap_filename(probe.file)]
    /\ UNCHANGED <<files, seqno, journals, journal, rx, reqs, items, cpc, hst,
                   pend, returned, rd, epoch, sent, log, prev, closed, config>>

\* next_filename of the file name that make_filename wrote.
ProbeNext ==
    /\ probe.pc = "made"
    /\ probe' = [probe EXCEPT !.pc = "next",
                              !.file = next_filename(probe.file)]
    /\ UNCHANGED <<files, seqno, journals, journal, rx, reqs, items, cpc, hst,
                   pend, returned, rd, epoch, sent, log, prev, closed, config>>

\* unwrap_filename of a file name that make_filename does not write.
ProbeForeign(file) ==
    /\ probe.pc = "idle"
    /\ probe' = [pc |-> "foreign", name |-> <<>>, num |-> 0,
                 file |-> unwrap_filename(file)]
    /\ UNCHANGED <<files, seqno, journals, journal, rx, reqs, items, cpc, hst,
                   pend, returned, rd, epoch, sent, log, prev, closed, config>>

\* The call is over.
ProbeDone ==
    /\ probe.pc \in {"unwrapped", "next", "foreign"}
    /\ probe' = ProbeIdle
    /\ UNCHANGED <<files, seqno, journals, journal, rx, reqs, items, cpc, hst,
                   pend, returned, rd, epoch, sent, log, prev, closed, config>>

(* --------------------------- calls of batch.rs ------------------------ *)

\* The calls made on the Worker of the journal so far: the last call, what it
\* returned, the Worker and the size of the file before it, and the Indexes
\* that the flush calls returned.
WorkerCall(call, index, ret, batch) ==
    [pc |-> "worker", call |-> call, index |-> index, ret |-> ret,
     batch |-> batch, before |-> journal, size |-> FileLen(files[journal.num]),
     rets |-> IF probe.pc = "worker" THEN probe.rets \o ret ELSE ret]

\* Worker::add_entry of an entry with the next seqno.
WorkerAdd(op) ==
    /\ probe.pc \in {"idle", "worker"}
    /\ Len(log) < MaxOps
    /\ LET e == Entry(seqno, op)
       IN  /\ journal' = Worker_add_entry(journal, e, "Ok").journal
           /\ log' = Append(log, e)
    /\ seqno' = fetch_add(seqno)
    /\ probe' = WorkerCall("add_entry", None, None, None)
    /\ UNCHANGED <<files, journals, rx, reqs, items, cpc, hst, pend, returned,
                   rd, epoch, sent, prev, closed, config>>

\* Worker::flush on the file of the journal, with or without pending entries.
WorkerFlush ==
    /\ probe.pc \in {"idle", "worker"}
    /\ LET r == flush(journal, files)
       IN  /\ journal' = r.journal
           /\ files' = r.files
           /\ probe' = WorkerCall("flush", None, r.ret, None)
    /\ UNCHANGED <<seqno, journals, rx, reqs, items, cpc, hst, pend, returned,
                   rd, epoch, sent, log, prev, closed, config>>

\* Batch::from_index with any Index within the file.
WorkerRead(fpos, length) ==
    /\ probe.pc \in {"idle", "worker"}
    /\ fpos + length <= FileLen(files[journal.num])
    /\ LET index == Index(fpos, length, 0, 0)
       IN  probe' = WorkerCall("from_index", Some(index), None,
                               from_index(index, files[journal.num]))
    /\ UNCHANGED <<files, seqno, journals, journal, rx, reqs, items, cpc, hst,
                   pend, returned, rd, epoch, sent, log, prev, closed, config>>

(* ----------------------------- specification -------------------------- *)

Writer ==
    Recv \/ TryRecv \/ AddEntries \/ Flush \/ Send \/ RotateCheck

Next ==
    \/ \E c \in Callers, op \in Payloads : AddOp(c, op)
    \/ Writer
    \/ \E r \in Ranges : RangeOpen(r[1], r[2])
    \/ RangeCollect
    \/ RangeDrop

NextRecover ==
    \/ \E c \in Callers, op \in Payloads : AddOp(c, op)
    \/ Writer
    \/ RangeOpen(Unbounded, Unbounded)
    \/ RangeCollect
    \/ RangeDrop
    \/ \E c \in Callers : DropHandle(c)
    \/ RecvDisconnected
    \/ Crash
    \/ Load

\* The instance made by create is stopped, by a crash or by the release of
\* every handle, and the WAL is loaded again; the reader calls iter.
SpecRecover == Init /\ [][NextRecover]_vars

NextCreate ==
    \/ \E c \in Callers, op \in Payloads : AddOp(c, op)
    \/ Writer
    \/ \E c \in Callers : DropHandle(c)
    \/ RecvDisconnected
    \/ Crash
    \/ Create

\* The instance made by create is stopped and create is called again on the
\* directory it leaves.
SpecCreate == Init /\ [][NextCreate]_vars

NextClose ==
    \/ \E c \in Callers, op \in Payloads : AddOp(c, op)
    \/ Writer
    \/ FlushFail
    \/ \E c \in Callers : AddOpFail(c)
    \/ \E c \in Callers, op \in Payloads : AddOpDisconnected(c, op)
    \/ \E c \in Callers : DropHandle(c)
    \/ RecvDisconnected
    \/ \E c \in Callers : Close(c)
    \/ \E c \in Callers : CloseWait(c)
    \/ \E c \in Callers : Purge(c)
    \/ \E c \in Callers : PurgeWait(c)

\* The callers add ops, drop their handles and call close and purge; a flush
\* may fail.  The writer thread and every blocked call are scheduled fairly;
\* an error is never forced.
SpecClose ==
    /\ Init
    /\ [][NextClose]_vars
    /\ WF_vars(Writer)
    /\ WF_vars(RecvDisconnected)
    /\ \A c \in Callers : WF_vars(AddOpFail(c))
    /\ \A c \in Callers : WF_vars(CloseWait(c))
    /\ \A c \in Callers : WF_vars(PurgeWait(c))

NextLive ==
    \/ \E c \in Callers, op \in Payloads : AddOp(c, op)
    \/ Writer
    \/ FlushFail
    \/ \E c \in Callers : AddOpFail(c)
    \/ \E c \in Callers, op \in Payloads : AddOpDisconnected(c, op)
    \/ \E c \in Callers : DropHandle(c)
    \/ RecvDisconnected

\* The callers add ops and drop their handles; a flush may fail.  The writer
\* thread and every blocked add_op are scheduled fairly; an error is never
\* forced.
SpecLive ==
    /\ Init
    /\ [][NextLive]_vars
    /\ WF_vars(Writer)
    /\ WF_vars(RecvDisconnected)
    /\ \A c \in Callers : WF_vars(AddOpFail(c))

\* The largest file the Worker can have written: a batch for every entry.
MaxFile == MaxOps * BatchLen([entries |-> <<Entry(0, <<2, 2>>)>>])

NextWorker ==
    \/ \E op \in Payloads : WorkerAdd(op)
    \/ WorkerFlush
    \/ \E fpos \in 0..MaxFile, length \in 1..MaxFile : WorkerRead(fpos, length)

\* Any sequence of add_entry, flush and from_index calls on the Worker of a
\* journal and its file, the entries numbered as the writer thread numbers
\* them.
SpecWorker == Init /\ [][NextWorker]_vars

NextLock ==
    \/ \E c \in Callers : AddOp(c, <<1>>)
    \/ Writer
    \/ \E c \in Callers : ReadLock(c)
    \/ \E c \in Callers : ReadRelease(c)
    \/ \E c \in Callers : IterDrop(c)

\* The callers add ops (of one size: the locks do not depend on the payload)
\* and call range, each keeping its iterator for as long as it likes.  A call of range, once it has the lock, runs to its end, and
\* the writer thread is not starved of the lock by readers that come and go
\* (a waiting writer gets the lock when the readers before it are done).
SpecLock ==
    /\ Init
    /\ [][NextLock]_vars
    /\ SF_vars(Writer)
    /\ \A c \in Callers : WF_vars(ReadRelease(c))

NextFail ==
    \/ \E c \in Callers, op \in Payloads : AddOp(c, op)
    \/ Writer
    \/ AddEntriesFail
    \/ FlushFail
    \/ \E c \in Callers : AddOpFail(c)
    \/ \E c \in Callers, op \in Payloads : AddOpDisconnected(c, op)
    \/ WriterClose

\* The callers add ops; the State callback or the write of a flush may fail,
\* and Writer::close is called after the writer thread has returned.
SpecFail == Init /\ [][NextFail]_vars

NextChan ==
    \/ \E c \in Callers, op \in Payloads : AddOp(c, op)
    \/ \E c \in Callers, op \in Payloads : Post(c, op)
    \/ Writer
    \/ \E c \in Callers : DropHandle(c)
    \/ \E c \in Callers : DropReply(c)
    \/ RecvDisconnected
    \/ TryRecvDisconnected
    \/ SendFail
    \/ \E c \in Callers : AddOpFail(c)

\* The writer thread with every use its channel allows: requests with and
\* without a reply channel, senders and reply receivers dropped at any time.
SpecChan == Init /\ [][NextChan]_vars

NextFiles ==
    \/ \E name \in Names, num \in 0..U64_MAX : ProbeMake(name, num)
    \/ ProbeUnwrap
    \/ ProbeNext
    \/ \E file \in ForeignFiles : ProbeForeign(file)
    \/ ProbeDone

\* make_filename, unwrap_filename and next_filename called on any name and
\* number.
SpecFiles == Init /\ [][NextFiles]_vars

\* Wral::create with a Config on which set_fsync was called or not.
InitSetFsync ==
    /\ InitState
    /\ config \in {Config_new} \cup {set_fsync(Config_new, f) : f \in BOOLEAN}

NextSync ==
    \/ \E c \in Callers, op \in Payloads : AddOp(c, op)
    \/ Writer

\* The callers add ops to an instance made with fsync true or false.
SpecSync == InitSetFsync /\ [][NextSync]_vars

\* Every value of ops::Bound<u64>.
AllBounds ==
    {Unbounded} \cup {Included(v) : v \in 0..U64_MAX}
                \cup {Excluded(v) : v \in 0..U64_MAX}

NextRange ==
    \/ \E sb \in AllBounds, eb \in AllBounds : RangeOpen(sb, eb)
    \/ RangeCollect
    \/ RangeDrop

\* range called with any pair of bounds on the WAL as create made it.
SpecRange == Init /\ [][NextRange]_vars

Spec == Init /\ [][Next]_vars

(* ------------------------------- claims ------------------------------- *)

\* Number of add_op calls of this instance that returned a seqno.
RECURSIVE NReturned(_)
NReturned(cs) ==
    IF cs = {} THEN 0
    ELSE LET c == CHOOSE x \in cs : TRUE
         IN  Len(returned[c]) + NReturned(cs \ {c})

OkItems(es) == [i \in 1..Len(es) |-> Ok(es[i])]

\* The iterator of the reader yielded the entry.
Yielded(e) == \E i \in 1..Len(rd.out) : rd.out[i] = Ok(e)

\* The closed interval the bounds of the reader stand for, over the
\* integers: none when the start excludes u64::MAX or the end excludes 0.
NoInterval ==
    \/ rd.sb.kind = "Excluded" /\ rd.sb.v = U64_MAX
    \/ rd.eb.kind = "Excluded" /\ rd.eb.v = 0

Lo ==
    CASE rd.sb.kind = "Unbounded" -> 0
      [] rd.sb.kind = "Included" -> rd.sb.v
      [] rd.sb.kind = "Excluded" -> rd.sb.v + 1

Hi ==
    CASE rd.eb.kind = "Unbounded" -> U64_MAX
      [] rd.eb.kind = "Included" -> rd.eb.v
      [] rd.eb.kind = "Excluded" -> rd.eb.v - 1

InInterval(sq) == ~NoInterval /\ Lo <= sq /\ sq <= Hi

IsIter == rd.sb = Unbounded /\ rd.eb = Unbounded

\* The entry is in a batch that an Index of the journal locates in its file.
InJournal(j, e) ==
    \E k \in 1..Len(j.index) :
        LET b == from_index(j.index[k], files[j.num])
        IN  /\ b # None
            /\ j.index[k].first_seqno <= e.seqno
            /\ e.seqno <= j.index[k].last_seqno
            /\ \E i \in 1..Len(b[1].entries) : b[1].entries[i] = e

\* Some drain window of this instance held two requests.
SharedWindow ==
    \/ \E k \in 1..Len(journal.index) :
          journal.index[k].first_seqno < journal.index[k].last_seqno
    \/ \E i \in 1..Len(journals) : \E k \in 1..Len(journals[i].index) :
          journals[i].index[k].first_seqno < journals[i].index[k].last_seqno

\* C1: the seqnos returned to the callers of an instance made by create are
\* pairwise distinct and are exactly 1..N, N the number of add_op calls that
\* returned.
C1_SeqnoBijection ==
    LET n == NReturned(Callers)
    IN  /\ {e.seqno : e \in Acked} = 1..n
        /\ \A c, d \in Callers :
              \A i \in 1..Len(returned[c]), k \in 1..Len(returned[d]) :
                 (c # d \/ i # k) => returned[c][i].seqno # returned[d][k].seqno

C1_Witness ==
    /\ NReturned(Callers) = MaxOps
    /\ \A c \in Callers : returned[c] # <<>>
    /\ SharedWindow

\* C2: range(n..=n), called after add_op(op) returned n, yields exactly one
\* item, the entry (n, op).
C2_ReplayOne ==
    \A e \in rd.acked :
        (/\ rd.pc = "done"
         /\ rd.sb = Included(e.seqno)
         /\ rd.eb = Included(e.seqno)) => rd.out = <<Ok(e)>>

C2_Witness ==
    /\ rd.pc = "done"
    /\ Cardinality(rd.acked) = 3
    /\ \A c \in Callers : returned[c] # <<>>
    /\ \E e \in rd.acked :
          e.seqno = 2 /\ rd.sb = Included(2) /\ rd.eb = Included(2)

\* C3: every entry whose seqno a caller holds is in a batch written to a
\* journal file and located by an Index of that journal; while the replies
\* of a drain window are sent the batch of the window is the last one of
\* the Working journal, which holds no unflushed entry.
C3_ReplyAfterFlush ==
    /\ \A e \in Acked :
          \/ InJournal(into_archive(journal), e)
          \/ \E i \in 1..Len(journals) : InJournal(journals[i], e)
    /\ cpc \in {"send", "rotate"} =>
          /\ journal.entries = <<>>
          /\ journal.index # <<>>
          /\ \A e \in Acked :
                e.seqno >= Last(journal.index).first_seqno
                   => InJournal(into_archive(journal), e)

C3_Witness ==
    /\ cpc = "send"
    /\ items # <<>>
    /\ \E e \in Acked : e.seqno = Last(journal.index).first_seqno

\* C4: after a crash, load and iter yield every entry whose add_op had
\* returned before the crash.
C4_AckedSurviveCrash ==
    (epoch >= 1 /\ rd.pc = "done") => \A e \in prev.acked : Yielded(e)

\* C5: after create, N add_op calls that returned and the release of every
\* handle, load and iter yield exactly the N entries, seqnos 1..N in the
\* order they were submitted, and the add_op calls on the loaded instance
\* get N+1, N+2, ...
C5_Recovery ==
    (epoch >= 1 /\ prev.graceful) =>
        LET n == Len(prev.log)
        IN  /\ \A i \in 1..n : prev.log[i].seqno = i
            /\ {prev.log[i] : i \in 1..n} = prev.acked
            /\ \A i \in 1..Len(log) : log[i].seqno = n + i
            /\ \A e \in Acked : \E i \in 1..Len(log) : log[i] = e
            /\ rd.pc = "done" => rd.out = OkItems(prev.log \o rd.log)

C7_Visibility ==
    rd.pc = "done" =>
        /\ \A e \in rd.acked : InInterval(e.seqno) => Yielded(e)
        /\ \A e \in rd.acked : \A m \in 1..e.seqno :
              \E x \in rd.acked : x.seqno = m

C7_Witness ==
    /\ rd.pc = "done"
    /\ IsIter
    /\ Cardinality(rd.acked) = 2
    /\ Len(rd.out) = 2
    /\ Len(log) = 3

\* C8: iter yields every seqno given out so far once, in increasing order,
\* with its op, whatever the number of rotations.
C8_IterComplete ==
    (rd.pc = "done" /\ IsIter) =>
        /\ rd.out = OkItems(rd.log)
        /\ \A i \in 1..Len(rd.log) : rd.log[i].seqno = i

C8_Witness ==
    /\ rd.pc = "done"
    /\ IsIter
    /\ Len(rd.journals) >= 3
    /\ Len(rd.out) = 3

\* C9: range yields, in the order of iter, exactly the entries whose seqno
\* lies in the closed interval of its bounds, and nothing when there is no
\* such entry or no interval.
C9_RangeFilter ==
    rd.pc = "done" =>
        rd.out = OkItems(SelectSeq(rd.log, LAMBDA e : InInterval(e.seqno)))

C9_Witness ==
    /\ rd.pc = "done"
    /\ rd.sb = Excluded(1)
    /\ rd.eb = Excluded(3)
    /\ Len(rd.log) = 3
    /\ Len(rd.out) = 1

\* C10: the bounds are normalized to 0 / s / s+1 and u64::MAX / e / e-1,
\* computed without wrapping; a start that excludes u64::MAX or an end that
\* excludes 0 gives no interval, and the iterator is then empty.
C10_Normalize ==
    rd.pc # "idle" =>
        IF NoInterval
        THEN /\ rd.range = None
             /\ rd.journals = <<>>
             /\ rd.pc = "done" => rd.out = <<>>
        ELSE /\ rd.range = Some([start |-> Lo, end |-> Hi])
             /\ Lo \in 0..U64_MAX
             /\ Hi \in 0..U64_MAX

C10_Witness ==
    /\ rd.pc = "done"
    /\ rd.sb = Excluded(U64_MAX)
    /\ rd.eb = Excluded(3)
    /\ rd.range = None

\* C11: at the end of a drain cycle the writer rotates if and only if the
\* file of the Working journal is larger than journal_limit; after a rotation
\* the Working journal has the next number and an empty file, the journal it
\* replaces is the last of the Archive journals, and the file of an Archive
\* journal never changes again.
C11_Rotation ==
    [][/\ (cpc = "rotate" /\ cpc' = "recv") =>
            IF FileLen(files[journal.num]) > JournalLimit
            THEN /\ journal'.num = journal.num + 1
                 /\ journal'.index = <<>>
                 /\ files'[journal'.num] = EmptyFile
                 /\ Len(journals') = Len(journals) + 1
                 /\ SubSeq(journals', 1, Len(journals)) = journals
                 /\ Last(journals').num = journal.num
                 /\ Last(journals').index = journal.index
            ELSE journal' = journal /\ journals' = journals /\ files' = files
       /\ ~(cpc = "rotate" /\ cpc' = "recv") =>
            journal'.num = journal.num /\ journals' = journals
       /\ \A i \in 1..Len(journals) :
            /\ journals[i].num \in DOMAIN files'
            /\ files'[journals[i].num] = files[journals[i].num]]_vars

C11_Witness ==
    /\ Len(journals) = 2
    /\ journals[1].num = 0
    /\ journals[2].num = 1
    /\ journal.num = 2
    /\ Len(journal.index) = 1
    /\ FileLen(files[2]) = JournalLimit
    /\ cpc = "recv"

C13_CloseShared ==
    [][\A c \in Callers :
          (hst[c] = "idle" /\ Live # {c}) =>
             /\ hst'[c] \notin {"close_wait", "purge_wait", "closed"}
             /\ closed'[c] # closed[c] =>
                   /\ closed'[c] = Append(closed[c], Last(closed'[c]))
                   /\ Last(closed'[c]).ok
                   /\ Last(closed'[c]).val = None
                   /\ Last(closed'[c]).call = "close" => hst'[c] = hst[c]
                   /\ \A d \in Callers \ {c} :
                         hst'[d] = hst[d] /\ closed'[d] = closed[d]
                   /\ UNCHANGED <<files, seqno, journals, journal, rx, reqs,
                                  items, cpc, returned, log>>]_vars

C13_Witness ==
    /\ closed["t1"] = <<CloseRes("close", TRUE, None)>>
    /\ closed["t2"] = <<>>
    /\ hst["t1"] = "idle"
    /\ Len(returned["t1"]) = 1
    /\ Len(returned["t2"]) = 2
    /\ cpc = "recv"

\* C14: when every clone of the handle has called close, one of the calls
\* has returned Some; the calls never all return None.
C14_LastOneOut ==
    (/\ cpc # "failed"
     /\ \A c \in Callers :
           /\ closed[c] # <<>>
           /\ \A i \in 1..Len(closed[c]) : closed[c][i].call = "close")
        => \E c \in Callers : \E i \in 1..Len(closed[c]) :
              closed[c][i].ok /\ closed[c][i].val # None

\* C15: close called on the only handle returns.
C15_CloseReturns ==
    \A c \in Callers : (hst[c] = "close_wait") ~> (hst[c] = "closed")

\* C16: purge called on the only handle stops the writer thread and removes
\* every journal file.
C16_PurgeRemoves ==
    \A c \in Callers :
        (hst[c] = "purge_wait" /\ cpc # "failed") ~> (DOMAIN files = {})

\* C17: every add_op call returns, with a seqno or with an error, when the
\* writer thread is scheduled fairly, also when the thread ends with an error.
C17_AddOpReturns ==
    \A c \in Callers : (hst[c] = "waiting") ~> (hst[c] # "waiting")

C17_Witness ==
    /\ cpc = "failed"
    /\ sent = 2
    /\ \A c \in Callers :
          hst[c] = "idle" /\ pend[c] # <<>> /\ returned[c] = <<>>

\* C18: an instance made by load never gives out a seqno that an add_op of
\* an earlier instance had returned: its seqnos are all greater.
C18_NoSeqnoReuse ==
    epoch >= 1 =>
        \A i \in 1..Len(log) : \A a \in prev.acked : log[i].seqno > a.seqno

\* C19: a journal file whose first batches decode and whose remaining bytes
\* do not is loaded as an Archive journal with the Indexes of exactly those
\* batches.
C19_GoodPrefixLoaded ==
    (epoch >= 1 /\ Up) =>
        \A n \in DOMAIN files :
            (files[n].tail > 0 /\ files[n].batches # <<>>) =>
                \E i \in 1..Len(journals) :
                    /\ journals[i].num = n
                    /\ journals[i].index = WalkIndex(files[n].batches, 0)

\* C20: with fsync false no flush syncs the file; with fsync true the batch
\* of a drain window is synced before the replies of the window are sent.
C20_SyncIffConfigured ==
    /\ ~config.fsync => \A n \in DOMAIN files : files[n].synced = 0
    /\ (config.fsync /\ cpc \in {"send", "rotate"}) =>
          files[journal.num].synced = FileLen(files[journal.num])

\* C21: unwrap_filename gives back the name and the number that
\* make_filename was given, gives None of a file name of another form, and
\* next_filename names the journal of the next number, saturating.
C21_FileNameRoundTrip ==
    /\ probe.pc = "unwrapped" =>
          probe.file = Some([name |-> probe.name, num |-> probe.num])
    /\ probe.pc = "next" =>
          probe.file = make_filename(probe.name, SatAdd(probe.num))
    /\ probe.pc = "foreign" => probe.file = None

\* The entries that are in a batch of a journal file.
Flushed ==
    UNION {UNION {{b.entries[i] : i \in 1..Len(b.entries)} :
                    b \in {files[n].batches[k] : k \in 1..Len(files[n].batches)}} :
             n \in DOMAIN files}

Batches == [n \in DOMAIN files |-> files[n].batches]

\* C23: a drain cycle appends exactly one batch to the active journal's file;
\* the entries of the batch are the requests of the drain window in the order
\* they were dequeued, with consecutive seqnos; no other step writes a batch.
C23_OneBatchPerWindow ==
    [][/\ (cpc = "add_entry" /\ cpc' = "flush") =>
             /\ journal.entries = <<>>
             /\ Len(journal'.entries) = Len(reqs)
             /\ \A i \in 1..Len(reqs) :
                    journal'.entries[i] = Entry(seqno + i - 1, reqs[i].op)
       /\ (cpc = "flush" /\ cpc' = "send") =>
             /\ journal'.num = journal.num
             /\ \E b \in {Last(files'[journal.num].batches)} :
                    /\ b.entries = journal.entries
                    /\ Batches' = [Batches EXCEPT ![journal.num] = Append(@, b)]
       /\ ~(cpc = "flush" /\ cpc' = "send") =>
             \A n \in DOMAIN files : Batches'[n] = Batches[n]]_vars

\* A batch of two entries is in the file: two requests were in one window.
C23_Witness ==
    \E n \in DOMAIN files : \E k \in 1..Len(files[n].batches) :
        Len(files[n].batches[k].entries) = 2

\* C25: a drain cycle in which add_entry or flush fails ends the writer
\* thread: the requests of the window and of the channel lose their reply
\* channels without a reply, and from then on no seqno is assigned, no file
\* is written, and a caller only ever returns without a seqno.
C25_FailureTerminates ==
    [][/\ (/\ cpc' # cpc
           /\ \/ cpc = "add_entry" /\ Len(journal'.entries) < Len(reqs)
              \/ cpc = "flush" /\ journal.entries # <<>> /\ Batches' = Batches) =>
             /\ cpc' = "failed"
             /\ rx' = <<>> /\ items' = <<>>
             /\ returned' = returned
       /\ cpc = "failed" =>
             /\ cpc' = "failed"
             /\ seqno' = seqno /\ log' = log
             /\ files' = files /\ journal' = journal /\ journals' = journals
             /\ returned' = returned
             /\ \A c \in Callers : hst'[c] # hst[c] =>
                    hst[c] = "waiting" /\ hst'[c] = "idle"]_vars

\* After a failure a waiting caller has returned and a later call was made:
\* more calls were made than entries were given a seqno and kept.
C25_Witness ==
    /\ cpc = "failed"
    /\ log # <<>>
    /\ sent > Len(log)
    /\ \A c \in Callers : hst[c] = "idle"

\* C26: when the State callback returns an error, add_entry returns the
\* error and leaves the pending entries and the Index list of the builder
\* as they were: the rejected entry is not appended.
C26_RejectedNotAppended ==
    (cpc = "failed" /\ probe.pc = "add_entry") =>
        /\ probe.res = "Err"
        /\ journal.entries = probe.journal.entries
        /\ journal.index = probe.journal.index
        /\ \A i \in 1..Len(journal.entries) : journal.entries[i] # probe.entry

\* The callback rejected the second entry of a window.
C26_Witness ==
    /\ probe.pc = "add_entry"
    /\ probe.journal.entries # <<>>
    /\ probe.journal.index # <<>>

\* C27: a flush that fails leaves the builder as it was: the pending entries
\* are still held and no Index is recorded for the batch.
C27_FailedFlushKeepsEntries ==
    [][(cpc = "flush" /\ cpc' = "failed") =>
          (journal'.entries = journal.entries /\ journal'.index = journal.index)]_vars

\* The Index lists of the journals of a list, one after the other.
RECURSIVE Indexes(_)
Indexes(js) ==
    IF js = <<>> THEN <<>> ELSE Head(js).index \o Indexes(Tail(js))

\* The Index list of the archived journals followed by the active one's.
AllIndexes == Indexes(journals) \o journal.index

\* C28: the Index ranges of the archived journals in list order, followed by
\* those of the active journal, are strictly increasing and disjoint, and
\* the pending entries of the active journal come after all of them.
C28_IndexIncreasing ==
    /\ \A i \in 1..Len(AllIndexes) :
          /\ AllIndexes[i].first_seqno <= AllIndexes[i].last_seqno
          /\ i > 1 => AllIndexes[i - 1].last_seqno < AllIndexes[i].first_seqno
    /\ \A k \in 1..Len(journal.entries) : \A i \in 1..Len(AllIndexes) :
          AllIndexes[i].last_seqno < journal.entries[k].seqno
    /\ \A i \in 1..Len(journal.index) : \A a \in 1..Len(journals) :
          \A k \in 1..Len(journals[a].index) :
              journals[a].index[k].last_seqno < journal.index[i].first_seqno

\* Two journals are archived and the active journal has a batch and a
\* pending entry.
C28_Witness ==
    /\ Len(journals) = 2
    /\ journals[1].index # <<>> /\ journals[2].index # <<>>
    /\ journal.entries # <<>>

\* InnerJournal::Working: a journal with a Worker (index and pending entries).
IsWorking(j) == DOMAIN j = {"num", "index", "entries", "state"}

\* InnerJournal::Archive: a journal with an Index list and no Worker.
IsArchive(j) == DOMAIN j = {"num", "index", "state"}

\* C30: the writer's `journal` is always Working and every element of
\* `journals` is an Archive, so add_entry, flush, file_size and into_archive
\* are only ever called on a Working journal.
C30_OneActive ==
    /\ IsWorking(journal)
    /\ \A i \in 1..Len(journals) : IsArchive(journals[i])

\* The writer thread is about to call file_size on the active journal, which
\* has a batch, while an archived journal is in the list.
C30_Witness ==
    /\ cpc = "rotate"
    /\ journals # <<>>
    /\ journal.index # <<>>

\* The sum of the lengths of the Indexes of a list.
RECURSIVE SumLength(_)
SumLength(index) ==
    IF index = <<>> THEN 0 ELSE Head(index).length + SumLength(Tail(index))

\* The Index list of a journal tiles its file, and the loop of load_archive
\* over the file gives the same list.
Tiles(j) ==
    /\ \A i \in 1..Len(j.index) :
          j.index[i].fpos = IF i = 1 THEN 0
                            ELSE j.index[i - 1].fpos + j.index[i - 1].length
    /\ SumLength(j.index) = FileLen(files[j.num])
    /\ WalkIndex(files[j.num].batches, 0) = j.index

Written == files[journal.num].batches

\* C32: every batch in the file is non-empty, carries the seqnos of its
\* first and last entry, has its entries in strictly increasing seqno order
\* and first_seqno <= last_seqno; a flush without pending entries returns
\* None, writes nothing and records no Index.
C32_BatchWellFormed ==
    /\ \A k \in 1..Len(Written) :
          LET b == Written[k]
          IN  /\ b.entries # <<>>
              /\ b.first_seqno = Head(b.entries).seqno
              /\ b.last_seqno = Last(b.entries).seqno
              /\ \A i \in 2..Len(b.entries) :
                     b.entries[i - 1].seqno < b.entries[i].seqno
              /\ b.first_seqno <= b.last_seqno
    /\ (probe.pc = "worker" /\ probe.call = "flush"
          /\ probe.before.entries = <<>>) =>
          /\ probe.ret = None
          /\ FileLen(files[journal.num]) = probe.size
          /\ journal = probe.before

\* A flush was called with nothing pending after a batch of two entries
\* was written.
C32_Witness ==
    /\ probe.pc = "worker" /\ probe.call = "flush"
    /\ probe.before.entries = <<>>
    /\ \E k \in 1..Len(Written) : Len(Written[k].entries) = 2

\* The entries of the batches that from_index reads for the Indexes of a
\* list, one after the other, each through into_iter(0..=u64::MAX); a batch
\* that cannot be read gives an Err item.
RECURSIVE ReadAll(_, _)
ReadAll(index, f) ==
    IF index = <<>> THEN <<>>
    ELSE LET b == from_index(Head(index), f)
         IN  (IF b = None THEN <<Err>>
              ELSE into_iter(b[1], [start |-> 0, end |-> U64_MAX]))
             \o ReadAll(Tail(index), f)

\* C33: after any sequence of add_entry and flush calls on the builder, the
\* pending entries are those added since the last flush, the Index list is
\* the sequence of Indexes the flush calls returned, and the batches of the
\* Indexes read in order from the file hold all flushed entries in the
\* order they were added.
C33_BuilderAccounting ==
    probe.pc = "worker" =>
        /\ probe.call = "flush" => journal.entries = <<>>
        /\ probe.call = "add_entry" =>
              journal.entries = Append(probe.before.entries, Last(log))
        /\ journal.index = probe.rets
        /\ ReadAll(journal.index, files[journal.num]) \o journal.entries = log

\* Two batches were flushed and an entry is pending.
C33_Witness ==
    /\ probe.pc = "worker"
    /\ Len(probe.rets) = 2
    /\ journal.entries # <<>>

\* C34: last_seqno of the builder is the seqno of the last pending entry,
\* else the last_seqno of the last Index; it is the seqno of the last entry
\* ever added, None only when nothing was added, and a flush does not
\* change it.
C34_LastSeqno ==
    /\ journal.entries # <<>> =>
          Worker_to_last_seqno(journal) = Some(Last(journal.entries).seqno)
    /\ (journal.entries = <<>> /\ journal.index # <<>>) =>
          Worker_to_last_seqno(journal) = Some(Last(journal.index).last_seqno)
    /\ Worker_to_last_seqno(journal) =
          IF log = <<>> THEN None ELSE Some(Last(log).seqno)
    /\ (probe.pc = "worker" /\ probe.call = "flush") =>
          Worker_to_last_seqno(journal) = Worker_to_last_seqno(probe.before)

\* A flush has just written the pending entries as the second batch.
C34_Witness ==
    /\ probe.pc = "worker" /\ probe.call = "flush"
    /\ probe.before.entries # <<>>
    /\ Len(journal.index) = 2

\* C35: from_index succeeds only when exactly Index.length bytes at
\* Index.fpos decode to one batch, which it returns; it fails when the bytes
\* do not decode and when the decoder consumes another number of bytes.
C35_ReadExactLength ==
    (probe.pc = "worker" /\ probe.call = "from_index") =>
        (probe.batch # None <=>
            \E i \in 1..Len(Written) :
                /\ Offset(Written, i) = probe.index[1].fpos
                /\ BatchLen(Written[i]) = probe.index[1].length
                /\ probe.batch = Some(Written[i]))

\* The files that hold whole batches and nothing else.
Good(fs) == {n \in DOMAIN fs : fs[n].batches # <<>> /\ fs[n].tail = 0}

\* The State stored in the last batch of the file whose last batch has the
\* highest last_seqno; S::default() when no file holds a batch.
LastPersistedState(fs) ==
    IF Good(fs) = {} THEN S_default
    ELSE LET n == CHOOSE m \in Good(fs) : \A k \in Good(fs) :
                      Last(fs[k].batches).last_seqno <= Last(fs[m].batches).last_seqno
         IN  Last(fs[n].batches).state

\* C36: the State handed to a new active journal is the State as of the last
\* persisted entry: on rotation that of the outgoing journal, which has no
\* pending entry, and on load that of the last batch of the journal with the
\* highest last_seqno.
C36_StateInherited ==
    [][/\ (cpc = "rotate" /\ journal'.num # journal.num) =>
             /\ journal.entries = <<>>
             /\ journal'.state = journal.state
             /\ journal'.state = LastPersistedState(files)
       /\ epoch' # epoch => journal'.state = LastPersistedState(files)]_vars

MaxPersisted ==
    IF Flushed = {} THEN 0
    ELSE (CHOOSE e \in Flushed : \A x \in Flushed : x.seqno <= e.seqno).seqno

C39_NoPendingOutsideLock ==
    (~WriteLocked \/ cpc = "rotate") => journal.entries = <<>>

\* C40: the start of a new active journal, in rotate and in load, leaves
\* every file that holds batches as it is, and the journal numbers of the
\* archived journals followed by the active one are strictly increasing.
C40_StartKeepsFiles ==
    [][/\ (cpc = "rotate" \/ epoch' # epoch) =>
             \A n \in DOMAIN files :
                 files[n].batches # <<>> =>
                     n \in DOMAIN files' /\ files'[n].batches = files[n].batches
       /\ \A i \in 1..Len(journals') :
             journals'[i].num <
                 (IF i < Len(journals') THEN journals'[i + 1].num ELSE journal'.num)]_vars

=============================================================================
